---- MODULE Spec2Model ----
(***************************************************************************)
(* State-machine model of the two notebooks of the repository:             *)
(*   - rlhf/rlhf_1.ipynb : reward-model training followed by PPO           *)
(*   - the transformers pipeline tour (unnamed/part_000)                   *)
(* Tensors are modelled as sequences of integers, Python objects as        *)
(* entries of a heap indexed by object identity.                           *)
(***************************************************************************)
EXTENDS Integers, Sequences, FiniteSets, TLC

\* ------------------------------------------------------------------ bounds
\* dataset.select(range(1000)), scaled down
NumExamples == 3
\* DataLoader(batch_size=8), scaled down
BatchSize == 2
\* tokenizer max_length=64, scaled down
MaxLength == 4
\* number of PPO updates ppo_trainer.train() performs, bounded
MaxPPOSteps == 2

\* The texts a dataset example may hold: sequences of words.
TextList == << <<1>>, <<2, 1>>, <<1, 2, 2, 1>> >>
Texts == {TextList[i] : i \in 1..Len(TextList)}
\* Scores a sequence-classification forward pass may produce.
ScoreSet == {-1, 0, 1}

Min(a, b) == IF a < b THEN a ELSE b
Max(a, b) == IF a > b THEN a ELSE b

RECURSIVE SumSeq(_)
SumSeq(s) == IF s = <<>> THEN 0 ELSE Head(s) + SumSeq(Tail(s))

RECURSIVE MaxLen(_)
MaxLen(rows) == IF rows = <<>> THEN 0 ELSE Max(Len(Head(rows)), MaxLen(Tail(rows)))

\* ------------------------------------------------------------ tokenizers
\* distilroberta-base special tokens: <s>=0, <pad>=1, </s>=2
RmBos == 0
RmPad == 1
RmEos == 2
\* huggyllama/llama-7b special tokens: <unk>=0, <s>=1, </s>=2
LmBos == 1
LmEos == 2
\* id of a dedicated pad token when the policy tokenizer already has one
LmOwnPad == 0

RmWordId(w) == w + 2
LmWordId(w) == w + 2

\* rm_tokenizer on one text: <s> words </s>, truncated to max_length
RmEncodeOne(text) ==
    LET keep == Min(Len(text), MaxLength - 2)
    IN  <<RmBos>> \o [i \in 1..keep |-> RmWordId(text[i])] \o <<RmEos>>

\* lm_tokenizer on one text: <s> words, truncated to max_length
LmEncodeOne(text) ==
    LET keep == Min(Len(text), MaxLength - 1)
    IN  <<LmBos>> \o [i \in 1..keep |-> LmWordId(text[i])]

PadRight(row, width, pad) ==
    [i \in 1..width |-> IF i <= Len(row) THEN row[i] ELSE pad]
PadLeft(row, width, pad) ==
    [i \in 1..width |-> IF i <= width - Len(row) THEN pad ELSE row[i - (width - Len(row))]]
MaskRight(row, width) == [i \in 1..width |-> IF i <= Len(row) THEN 1 ELSE 0]
MaskLeft(row, width) == [i \in 1..width |-> IF i <= width - Len(row) THEN 0 ELSE 1]

\* rm_tokenizer(texts, truncation=True, padding=True, max_length=..., return_tensors="pt")
RmTokenizer(texts) ==
    LET rows == [i \in 1..Len(texts) |-> RmEncodeOne(texts[i])]
        w == MaxLen(rows)
    IN  [input_ids |-> [i \in 1..Len(texts) |-> PadRight(rows[i], w, RmPad)],
         attention_mask |-> [i \in 1..Len(texts) |-> MaskRight(rows[i], w)]]

\* lm_tokenizer(texts, ...) with padding_side="left" and the given pad token
LmTokenizer(texts, pad) ==
    LET rows == [i \in 1..Len(texts) |-> LmEncodeOne(texts[i])]
        w == MaxLen(rows)
    IN  [input_ids |-> [i \in 1..Len(texts) |-> PadLeft(rows[i], w, pad)],
         attention_mask |-> [i \in 1..Len(texts) |-> MaskLeft(rows[i], w)]]

\* if lm_tokenizer.pad_token is None: lm_tokenizer.pad_token = lm_tokenizer.eos_token
PadTokenFix(padIsNone) == IF padIsNone THEN LmEos ELSE LmOwnPad

\* preprocess(examples): keeps the 'chosen' and 'rejected' columns
Preprocess(examples) == [chosen |-> examples.chosen, rejected |-> examples.rejected]

\* -------------------------------------------------------------- datasets
NoEnc == [input_ids |-> <<>>, attention_mask |-> <<>>]

\* BatchEncoding.items(): the (key, tensor) pairs of an encoding
EncKeys(enc) == DOMAIN enc

\* PairwiseDataset.__len__
PairwiseLen(ds) == Len(ds.chosen_encodings["input_ids"])

\* faulty variant, which the claims below must tell apart: the two elements of the pair in the wrong order
PairwiseGetItemSwapped(ds, idx) ==
    << [k \in DOMAIN ds.rejected_encodings |-> ds.rejected_encodings[k][idx + 1]],
       [k \in DOMAIN ds.chosen_encodings |-> ds.chosen_encodings[k][idx + 1]] >>

\* PairwiseDataset.__getitem__(idx), idx counted from 0
PairwiseGetItem(ds, idx) ==
    << [k \in EncKeys(ds.chosen_encodings) |-> ds.chosen_encodings[k][idx + 1]],
       [k \in EncKeys(ds.rejected_encodings) |-> ds.rejected_encodings[k][idx + 1]] >>

\* PromptDataset.__len__
PromptLen(ds) == Len(ds.encodings["input_ids"])

\* PromptDataset.__getitem__(idx), idx counted from 0
PromptGetItem(ds, idx) == [k \in EncKeys(ds.encodings) |-> ds.encodings[k][idx + 1]]

\* faulty variant, which the claims below must tell apart: the prompts taken from the rejected responses
PromptSourceRejected(processed) == processed.rejected

\* prompt_encodings = lm_tokenizer(processed_dataset["chosen"], ...)
PromptSource(processed) == processed.chosen

\* ---------------------------------------------------------------- state
VARIABLES
    pc,                 \* position of the RLHF notebook's single code cell
    dataset,            \* the selected HH-RLHF examples (columns chosen, rejected)
    processed,          \* processed_dataset
    chosen_encodings,   \* rm_tokenizer(processed_dataset["chosen"])
    rejected_encodings, \* rm_tokenizer(processed_dataset["rejected"])
    prompt_encodings,   \* lm_tokenizer(processed_dataset["chosen"])
    lm_pad,             \* lm_tokenizer.pad_token id, <<>> while the tokenizer is not loaded
    heap,               \* the model objects, indexed by identity
    names,              \* rm_model, lm_model, lora_model, ppo_model: object identities
    optimizer,          \* the AdamW optimizer: the model it steps and the steps taken
    remaining,          \* indices the shuffling sampler has not yielded yet
    batch,              \* chosen, rejected, the scores and the loss of the last iteration
    trainer,            \* ppo_trainer's arguments, <<>> before it is built
    ppo,                \* progress of ppo_trainer.train()
    fwd,                \* the last CustomValueHeadModel.forward call
    reward,             \* the last reward computation of PPO
    gen,                \* the test generation
    probe,              \* the last __getitem__ / __len__ call on the datasets
    tpc,                \* position in the pipeline tour notebook
    device,             \* DEVICE of the pipeline tour
    tenv,               \* the tour's pipeline variables: name -> task
    tasks,              \* task names passed to transformers.pipeline so far
    tcall,              \* the last pipeline call of the tour
    tout                \* the last cell output of the tour

dataVars == <<dataset, processed, chosen_encodings, rejected_encodings, prompt_encodings, lm_pad>>
runVars == <<pc, heap, names, optimizer, remaining, batch, trainer, ppo, fwd, reward, gen>>
tourVars == <<tpc, device, tenv, tasks, tcall, tout>>
vars == <<dataVars, runVars, probe, tourVars>>

NoColumns == [chosen |-> <<>>, rejected |-> <<>>]

\* every dataset of NumExamples preference pairs over Texts
Datasets ==
    {[chosen |-> c, rejected |-> r] : c \in [1..NumExamples -> Texts], r \in [1..NumExamples -> Texts]}

\* pairwise_dataset = PairwiseDataset(chosen_encodings, rejected_encodings)
PairwiseDataset(ce, re) == [chosen_encodings |-> ce, rejected_encodings |-> re]
\* prompt_dataset = PromptDataset(prompt_encodings)
PromptDataset(enc) == [encodings |-> enc]

NoProbe == [op |-> "none", idx |-> 0, len |-> 0, pair |-> <<>>, prompt |-> <<>>]

InitRun ==
    /\ pc = "start"
    /\ heap = <<>>
    /\ names = [rm_model |-> 0, lm_model |-> 0, lora_model |-> 0, ppo_model |-> 0]
    /\ optimizer = <<>>
    /\ remaining = {}
    /\ batch = <<>>
    /\ trainer = <<>>
    /\ ppo = [steps |-> 0, returned |-> FALSE]
    /\ fwd = <<>>
    /\ reward = <<>>
    /\ gen = <<>>

InitTour ==
    /\ tpc = 1
    /\ device = <<>>
    /\ tenv = [v \in {} |-> ""]
    /\ tasks = {}
    /\ tcall = <<>>
    /\ tout = <<>>

InitEncodings ==
    /\ processed = NoColumns
    /\ chosen_encodings = NoEnc
    /\ rejected_encodings = NoEnc
    /\ prompt_encodings = NoEnc
    /\ lm_pad = <<>>

\* ------------------------------------------------ the dataset classes alone
InitData ==
    /\ dataset \in Datasets
    /\ InitEncodings
    /\ probe = NoProbe
    /\ InitRun
    /\ InitTour

\* the tokenizer calls of the notebook, on every dataset
DataEncode ==
    /\ processed = NoColumns
    /\ \E padIsNone \in BOOLEAN :
         /\ lm_pad' = <<PadTokenFix(padIsNone)>>
         /\ processed' = Preprocess(dataset)
         /\ chosen_encodings' = RmTokenizer(processed'["chosen"])
         /\ rejected_encodings' = RmTokenizer(processed'["rejected"])
         /\ prompt_encodings' = LmTokenizer(PromptSource(processed'), lm_pad'[1])
    /\ UNCHANGED <<dataset, runVars, probe, tourVars>>

DataPairLen ==
    /\ processed # NoColumns
    /\ probe' = [NoProbe EXCEPT !.op = "pair_len",
                   !.len = PairwiseLen(PairwiseDataset(chosen_encodings, rejected_encodings))]
    /\ UNCHANGED <<dataVars, runVars, tourVars>>

DataPairGetItem ==
    /\ processed # NoColumns
    /\ LET ds == PairwiseDataset(chosen_encodings, rejected_encodings)
       IN  \E idx \in 0..(PairwiseLen(ds) - 1) :
             probe' = [NoProbe EXCEPT !.op = "pair", !.idx = idx, !.pair = PairwiseGetItem(ds, idx)]
    /\ UNCHANGED <<dataVars, runVars, tourVars>>

DataPromptLen ==
    /\ processed # NoColumns
    /\ probe' = [NoProbe EXCEPT !.op = "prompt_len",
                   !.len = PromptLen(PromptDataset(prompt_encodings))]
    /\ UNCHANGED <<dataVars, runVars, tourVars>>

DataPromptGetItem ==
    /\ processed # NoColumns
    /\ LET ds == PromptDataset(prompt_encodings)
       IN  \E idx \in 0..(PromptLen(ds) - 1) :
             probe' = [NoProbe EXCEPT !.op = "prompt", !.idx = idx, !.prompt = <<PromptGetItem(ds, idx)>>]
    /\ UNCHANGED <<dataVars, runVars, tourVars>>

NextData == DataEncode \/ DataPairLen \/ DataPairGetItem \/ DataPromptLen \/ DataPromptGetItem

SpecData == InitData /\ [][NextData]_vars

\* ------------------------------------------------- the RLHF notebook's run
\* Allocation of a new Python object: its identity is its place in the heap.
NewObject(h, kind, inner, groups) ==
    Append(h, [kind |-> kind, inner |-> inner, upd |-> [g \in groups |-> 0],
               generation_config |-> "", training |-> FALSE])

\* AutoModelForSequenceClassification(distilroberta-base, num_labels=1) plus the
\* nn.Linear assigned to rm_model.token_value_head
RewardModelGroups == {"backbone", "classifier", "token_value_head"}
\* rm_model(**x).logits: the encoder followed by the classification head
LogitsGroups == {"backbone", "classifier"}
\* rm_score: self.token_value_head(hidden_states)
ScoreHead == "token_value_head"
\* the reward of a sequence: hidden states of the backbone through rm_model.score
RewardGroups == {"backbone", ScoreHead}

\* one selection of NumExamples examples whose chosen and rejected texts differ
DemoDataset ==
    [chosen |-> [i \in 1..NumExamples |-> TextList[((i - 1) % Len(TextList)) + 1]],
     rejected |-> [i \in 1..NumExamples |-> TextList[(i % Len(TextList)) + 1]]]

Init ==
    /\ dataset = DemoDataset
    /\ InitEncodings
    /\ probe = NoProbe
    /\ InitRun
    /\ InitTour

\* dataset.map(preprocess, batched=True)
LoadData ==
    /\ pc = "start"
    /\ processed' = Preprocess(dataset)
    /\ pc' = "load_rm"
    /\ UNCHANGED <<dataset, chosen_encodings, rejected_encodings, prompt_encodings, lm_pad>>
    /\ UNCHANGED <<heap, names, optimizer, remaining, batch, trainer, ppo, fwd, reward, gen>>
    /\ UNCHANGED <<probe, tourVars>>

\* rm_model = from_pretrained(...); rm_model.token_value_head = nn.Linear(...);
\* rm_model.score = rm_score.__get__(...)
LoadRewardModel ==
    /\ pc = "load_rm"
    /\ heap' = NewObject(heap, "reward", 0, RewardModelGroups)
    /\ names' = [names EXCEPT !.rm_model = Len(heap')]
    /\ pc' = "encode_rm"
    /\ UNCHANGED <<dataVars, optimizer, remaining, batch, trainer, ppo, fwd, reward, gen>>
    /\ UNCHANGED <<probe, tourVars>>

EncodeRm ==
    /\ pc = "encode_rm"
    /\ chosen_encodings' = RmTokenizer(processed["chosen"])
    /\ rejected_encodings' = RmTokenizer(processed["rejected"])
    /\ pc' = "make_loader"
    /\ UNCHANGED <<dataset, processed, prompt_encodings, lm_pad>>
    /\ UNCHANGED <<heap, names, optimizer, remaining, batch, trainer, ppo, fwd, reward, gen>>
    /\ UNCHANGED <<probe, tourVars>>

\* pairwise_loader = DataLoader(pairwise_dataset, batch_size=..., shuffle=True);
\* optimizer = optim.AdamW(rm_model.parameters(), lr=1e-5); rm_model.train()
MakeLoader ==
    /\ pc = "make_loader"
    /\ remaining' = 0..(PairwiseLen(PairwiseDataset(chosen_encodings, rejected_encodings)) - 1)
    /\ optimizer' = <<[model |-> names.rm_model,
                       params |-> DOMAIN heap[names.rm_model].upd,
                       steps |-> 0]>>
    /\ heap' = [heap EXCEPT ![names.rm_model].training = TRUE]
    /\ pc' = "rm_train"
    /\ UNCHANGED <<dataVars, names, batch, trainer, ppo, fwd, reward, gen>>
    /\ UNCHANGED <<probe, tourVars>>

\* the batches a shuffling sampler may yield next: BatchSize distinct indices
\* not yielded before, or all that are left
NextBatches(rem) ==
    LET b == Min(BatchSize, Cardinality(rem))
    IN  {q \in [1..b -> rem] : \A i, j \in 1..b : i # j => q[i] # q[j]}

\* default_collate of a list of (chosen item, rejected item) pairs
Collate(items) ==
    << [k \in DOMAIN items[1][1] |-> [i \in 1..Len(items) |-> items[i][1][k]]],
       [k \in DOMAIN items[1][2] |-> [i \in 1..Len(items) |-> items[i][2][k]]] >>

\* faulty variant, which the claims below must tell apart: the difference taken the wrong way round
RewardLossSwapped(chosen_scores, rejected_scores) ==
    [num |-> 0 - SumSeq([i \in 1..Len(chosen_scores) |-> rejected_scores[i] - chosen_scores[i]]),
     den |-> Len(chosen_scores)]

\* loss = -torch.mean(chosen_scores - rejected_scores), as an exact fraction
RewardLoss(chosen_scores, rejected_scores) ==
    [num |-> 0 - SumSeq([i \in 1..Len(chosen_scores) |-> chosen_scores[i] - rejected_scores[i]]),
     den |-> Len(chosen_scores)]

\* loss.backward(); optimizer.step(): the parameters the loss depends on, among
\* those the optimizer holds, are updated
StepParams(obj, opt, used) ==
    [obj EXCEPT !.upd = [g \in DOMAIN obj.upd |->
                            IF g \in used /\ g \in opt.params THEN obj.upd[g] + 1 ELSE obj.upd[g]]]

\* faulty variant, which the claims below must tell apart: a loader that drops the last, incomplete batch
LoaderDropsLast == Cardinality(remaining) < BatchSize

\* the for loop is over when the loader is exhausted
LoaderExhausted == remaining = {}

\* one iteration of: for chosen, rejected in pairwise_loader
RewardTrainStep ==
    /\ pc = "rm_train"
    /\ ~LoaderExhausted
    /\ \E idx \in NextBatches(remaining) :
         LET ds == PairwiseDataset(chosen_encodings, rejected_encodings)
             cr == Collate([i \in 1..Len(idx) |-> PairwiseGetItem(ds, idx[i])])
         IN  \E cs, rs \in [1..Len(idx) -> ScoreSet] :
               /\ batch' = <<[idx |-> idx, chosen |-> cr[1], rejected |-> cr[2],
                              chosen_scores |-> cs, rejected_scores |-> rs,
                              loss |-> RewardLoss(cs, rs)]>>
               /\ remaining' = remaining \ {idx[i] : i \in 1..Len(idx)}
    /\ heap' = [heap EXCEPT ![optimizer[1].model] =
                   StepParams(heap[optimizer[1].model], optimizer[1], LogitsGroups)]
    /\ optimizer' = <<[optimizer[1] EXCEPT !.steps = @ + 1]>>
    /\ UNCHANGED <<dataVars, pc, names, trainer, ppo, fwd, reward, gen>>
    /\ UNCHANGED <<probe, tourVars>>

RewardTrainDone ==
    /\ pc = "rm_train"
    /\ LoaderExhausted
    /\ pc' = "load_lm"
    /\ UNCHANGED <<dataVars, heap, names, optimizer, remaining, batch, trainer, ppo, fwd, reward, gen>>
    /\ UNCHANGED <<probe, tourVars>>

\* lm_tokenizer = AutoTokenizer.from_pretrained(...); pad-token fix; prompt_encodings;
\* prompt_dataset
LoadLmTokenizer ==
    /\ pc = "load_lm"
    /\ \E padIsNone \in BOOLEAN :
         /\ lm_pad' = <<PadTokenFix(padIsNone)>>
         /\ prompt_encodings' = LmTokenizer(PromptSource(processed), lm_pad'[1])
    /\ pc' = "load_policy"
    /\ UNCHANGED <<dataset, processed, chosen_encodings, rejected_encodings>>
    /\ UNCHANGED <<heap, names, optimizer, remaining, batch, trainer, ppo, fwd, reward, gen>>
    /\ UNCHANGED <<probe, tourVars>>

\* lm_model = AutoModelForCausalLM.from_pretrained(...);
\* lora_model = peft.get_peft_model(lm_model, lora_config); lora_model.train()
LoadPolicy ==
    /\ pc = "load_policy"
    /\ LET h1 == NewObject(heap, "base", 0, {"weights"})
           h2 == NewObject(h1, "lora", Len(h1), {"lora"})
       IN  /\ \E hasConfig \in BOOLEAN :
                heap' = [h2 EXCEPT ![Len(h2)].training = TRUE,
                                   ![Len(h1)].generation_config =
                                       IF hasConfig THEN "pretrained" ELSE ""]
           /\ names' = [names EXCEPT !.lm_model = Len(h1), !.lora_model = Len(h2)]
    /\ pc' = "wrap_policy"
    /\ UNCHANGED <<dataVars, optimizer, remaining, batch, trainer, ppo, fwd, reward, gen>>
    /\ UNCHANGED <<probe, tourVars>>

\* hasattr(obj, "generation_config"): a PeftModel forwards attribute look-ups to
\* the model it wraps
HasGenerationConfig(h, id) ==
    \/ h[id].generation_config # ""
    \/ h[id].inner # 0 /\ h[h[id].inner].generation_config # ""

\* ppo_model = CustomValueHeadModel(pretrained_model=lora_model, ...); the
\* generation_config fallback; ppo_model.score = score.__get__(...)
WrapPolicy ==
    /\ pc = "wrap_policy"
    /\ LET h1 == NewObject(heap, "value_head", names.lora_model, {"v_head"})
           id == Len(h1)
           pm == h1[id].inner
       IN  /\ names' = [names EXCEPT !.ppo_model = id]
           /\ \E loaded \in BOOLEAN :
                LET cfg == IF loaded THEN "pretrained" ELSE "default"
                    h2 == IF ~HasGenerationConfig(h1, pm)
                          THEN [h1 EXCEPT ![pm].generation_config = cfg]
                          ELSE h1
                    pmcfg == IF h2[pm].generation_config # ""
                             THEN h2[pm].generation_config
                             ELSE h2[h2[pm].inner].generation_config
                IN  heap' = [h2 EXCEPT ![id].generation_config = pmcfg]
    /\ pc' = "make_trainer"
    /\ UNCHANGED <<dataVars, optimizer, remaining, batch, trainer, ppo, fwd, reward, gen>>
    /\ UNCHANGED <<probe, tourVars>>

\* the arguments of trl.PPOTrainer(...)
TrainerArgs ==
    [model |-> names.ppo_model, value_model |-> names.ppo_model, ref_model |-> 0,
     reward_model |-> names.rm_model, train_dataset |-> PromptDataset(prompt_encodings)]

MakeTrainer ==
    /\ pc = "make_trainer"
    /\ trainer' = <<TrainerArgs>>
    /\ pc' = "ppo_train"
    /\ UNCHANGED <<dataVars, heap, names, optimizer, remaining, batch, ppo, fwd, reward, gen>>
    /\ UNCHANGED <<probe, tourVars>>

\* what the wrapped pretrained_model may hand back: an output object with or
\* without a logits attribute (which may be None), with or without hidden states
Outputs == [logits : {"absent", "none", "tensor"}, hidden_states : {"absent", "tensor"}]
\* the output_hidden_states keyword a caller may pass
CallerKwargs == {"absent", "true", "false"}

HasAttr(outputs, attr) == outputs[attr] # "absent"

\* CustomValueHeadModel.forward: the keyword it passes on
ForwardKwargs(kw) == "true"

\* faulty variant, which the claims below must tell apart: forward without the logits check
ForwardResultUnchecked(outputs) == [kind |-> "return", value |-> <<outputs>>, error |-> ""]

\* CustomValueHeadModel.forward, given the output of self.pretrained_model(...)
ForwardResult(outputs) ==
    IF HasAttr(outputs, "logits")
    THEN [kind |-> "return", value |-> <<outputs>>, error |-> ""]
    ELSE [kind |-> "raise", value |-> <<>>, error |-> "ValueError"]

\* one PPO update of ppo_trainer.train(): the policy's forward pass, the reward
\* of the reward model, and the update of the adapters and the value head
PPOStep ==
    /\ pc = "ppo_train"
    /\ ppo.steps < MaxPPOSteps
    /\ \E kw \in CallerKwargs, outputs \in Outputs :
         LET res == ForwardResult(outputs)
             pol == trainer[1].model
             rm == trainer[1].reward_model
         IN  /\ fwd' = <<[self |-> pol, receiver |-> heap[pol].inner, kwargs_in |-> kw,
                          output_hidden_states |-> ForwardKwargs(kw),
                          outputs |-> outputs, result |-> res]>>
             /\ IF res.kind = "raise"
                THEN /\ pc' = "raised"
                     /\ UNCHANGED <<heap, ppo, reward>>
                ELSE /\ pc' = pc
                     /\ reward' = <<[model |-> rm, reads |-> RewardGroups,
                                     upd |-> [g \in RewardGroups |-> heap[rm].upd[g]]]>>
                     /\ heap' = [heap EXCEPT ![pol].upd["v_head"] = @ + 1,
                                             ![heap[pol].inner].upd["lora"] = @ + 1]
                     /\ ppo' = [ppo EXCEPT !.steps = @ + 1]
    /\ UNCHANGED <<dataVars, names, optimizer, remaining, batch, trainer, gen>>
    /\ UNCHANGED <<probe, tourVars>>

\* ppo_trainer.train() returns
PPOReturn ==
    /\ pc = "ppo_train"
    /\ ppo.steps = MaxPPOSteps
    /\ ppo' = [ppo EXCEPT !.returned = TRUE]
    /\ pc' = "generate"
    /\ UNCHANGED <<dataVars, heap, names, optimizer, remaining, batch, trainer, fwd, reward, gen>>
    /\ UNCHANGED <<probe, tourVars>>

\* faulty variant, which the claims below must tell apart: the generation run on the base model
GenerateReceiverBase == names.lm_model

\* ppo_pretrained_model = ppo_model.pretrained_model
GenerateReceiver == heap[names.ppo_model].inner

\* response = ppo_pretrained_model.generate(query_tensor, ...); decode; print
TestGeneration ==
    /\ pc = "generate"
    /\ gen' = <<[receiver |-> GenerateReceiver, after_train |-> ppo.returned,
                 ppo_steps |-> ppo.steps]>>
    /\ pc' = "done"
    /\ UNCHANGED <<dataVars, heap, names, optimizer, remaining, batch, trainer, ppo, fwd, reward>>
    /\ UNCHANGED <<probe, tourVars>>

Next ==
    \/ LoadData \/ LoadRewardModel \/ EncodeRm \/ MakeLoader
    \/ RewardTrainStep \/ RewardTrainDone
    \/ LoadLmTokenizer \/ LoadPolicy \/ WrapPolicy \/ MakeTrainer
    \/ PPOStep \/ PPOReturn \/ TestGeneration

Spec == Init /\ [][Next]_vars

\* ------------------------------------------------ the pipeline tour notebook
\* The statements of the code cells after the set-up cell, in the order of the
\* file: a binding  var = transformers.pipeline(task, ...)  or a call  var(...).
Bind(cell, var, task, dev) ==
    [cell |-> cell, op |-> "bind", var |-> var, task |-> task, dev |-> dev, inputs |-> 0, kw |-> {}]
Call(cell, var, inputs, kw) ==
    [cell |-> cell, op |-> "call", var |-> var, task |-> "", dev |-> FALSE, inputs |-> inputs, kw |-> kw]

\* faulty variant, which the claims below must tell apart: the zero-shot call placed before the rebinding of classifier
TourProgramLateRebind ==
    << Bind(2, "classifier", "sentiment-analysis", TRUE),
       Call(2, "classifier", 1, {}),
       Call(3, "classifier", 2, {}),
       Call(4, "classifier", 1, {"candidate_labels"}),
       Bind(4, "classifier", "zero-shot-classification", TRUE),
       Bind(5, "generator", "text-generation", TRUE),
       Call(5, "generator", 1, {}),
       Bind(6, "generator", "text-generation", FALSE),
       Call(6, "generator", 1, {"max_length", "num_return_sequences"}),
       Bind(7, "unmasker", "fill-mask", TRUE),
       Call(7, "unmasker", 1, {"top_k"}),
       Bind(8, "ner", "ner", FALSE),
       Call(8, "ner", 1, {}),
       Bind(9, "question_answerer", "question-answering", TRUE),
       Call(9, "question_answerer", 0, {"question", "context"}),
       Bind(10, "summarizer", "summarization", TRUE),
       Call(10, "summarizer", 1, {}),
       Bind(11, "translator", "translation", TRUE),
       Call(11, "translator", 1, {}) >>

TourProgram ==
    << Bind(2, "classifier", "sentiment-analysis", TRUE),
       Call(2, "classifier", 1, {}),
       Call(3, "classifier", 2, {}),
       Bind(4, "classifier", "zero-shot-classification", TRUE),
       Call(4, "classifier", 1, {"candidate_labels"}),
       Bind(5, "generator", "text-generation", TRUE),
       Call(5, "generator", 1, {}),
       Bind(6, "generator", "text-generation", FALSE),
       Call(6, "generator", 1, {"max_length", "num_return_sequences"}),
       Bind(7, "unmasker", "fill-mask", TRUE),
       Call(7, "unmasker", 1, {"top_k"}),
       Bind(8, "ner", "ner", FALSE),
       Call(8, "ner", 1, {}),
       Bind(9, "question_answerer", "question-answering", TRUE),
       Call(9, "question_answerer", 0, {"question", "context"}),
       Bind(10, "summarizer", "summarization", TRUE),
       Call(10, "summarizer", 1, {}),
       Bind(11, "translator", "translation", TRUE),
       Call(11, "translator", 1, {}) >>

\* candidate_labels of the zero-shot call
CandidateLabels == {"education", "politics", "business"}

\* what a pipeline of the given task may return for a call
CallOutputs(task, stmt) ==
    IF task = "sentiment-analysis"
    THEN [1..stmt.inputs -> {"POSITIVE", "NEGATIVE"}]
    ELSE IF task = "zero-shot-classification" /\ "candidate_labels" \in stmt.kw
    THEN {q \in [1..Cardinality(CandidateLabels) -> CandidateLabels] :
            \A i, j \in DOMAIN q : i # j => q[i] # q[j]}
    ELSE {<<task>>}

\* DEVICE = 0 if torch_cuda.is_available() else -1
DeviceFor(cuda) == IF cuda THEN 0 ELSE 0 - 1

TourSetup ==
    /\ tpc = 1
    /\ device = <<>>
    /\ \E cuda \in BOOLEAN : device' = <<DeviceFor(cuda)>>
    /\ UNCHANGED <<tpc, tenv, tasks, tcall, tout>>
    /\ UNCHANGED <<dataVars, runVars, probe>>

\* var = transformers.pipeline(task, model=..., device=DEVICE)
TourBind ==
    /\ device # <<>>
    /\ tpc \in 1..Len(TourProgram)
    /\ TourProgram[tpc].op = "bind"
    /\ LET st == TourProgram[tpc]
       IN  /\ tenv' = [v \in DOMAIN tenv \cup {st.var} |->
                         IF v = st.var THEN st.task ELSE tenv[v]]
           /\ tasks' = tasks \cup {st.task}
    /\ tpc' = tpc + 1
    /\ UNCHANGED <<device, tcall, tout>>
    /\ UNCHANGED <<dataVars, runVars, probe>>

\* loading the pipeline's model fails: the cell raises and the run stops
TourBindFails ==
    /\ device # <<>>
    /\ tpc \in 1..Len(TourProgram)
    /\ TourProgram[tpc].op = "bind"
    /\ tasks' = tasks \cup {TourProgram[tpc].task}
    /\ tpc' = 0
    /\ UNCHANGED <<device, tenv, tcall, tout>>
    /\ UNCHANGED <<dataVars, runVars, probe>>

\* var(...): the object the variable names at this moment is called
TourCall ==
    /\ device # <<>>
    /\ tpc \in 1..Len(TourProgram)
    /\ TourProgram[tpc].op = "call"
    /\ LET st == TourProgram[tpc]
       IN  IF st.var \in DOMAIN tenv
           THEN /\ tcall' = <<[cell |-> st.cell, var |-> st.var, bound |-> tenv[st.var], kw |-> st.kw]>>
                /\ \E out \in CallOutputs(tenv[st.var], st) : tout' = out
                /\ tpc' = tpc + 1
           ELSE /\ tcall' = <<[cell |-> st.cell, var |-> st.var, bound |-> "NameError", kw |-> st.kw]>>
                /\ tout' = <<>>
                /\ tpc' = 0
    /\ UNCHANGED <<device, tenv, tasks>>
    /\ UNCHANGED <<dataVars, runVars, probe>>

NextTour == TourSetup \/ TourBind \/ TourBindFails \/ TourCall

SpecTour == Init /\ [][NextTour]_vars

\* ================================================================= claims
\* comparison of two fractions with positive denominators
FracLess(a, b) == a.num * b.den < b.num * a.den

\* number of batches a loader over NumExamples items yields
ExpectedBatches == (NumExamples + BatchSize - 1) \div BatchSize

PPOStarted == pc \in {"ppo_train", "raised", "generate", "done"}

\* C1: PPO training starts only after the reward-model loop has run every one of
\* its optimizer steps, and the reward model handed to PPOTrainer is the very
\* object the loop trained: the only reward model ever created, carrying the
\* updates of every step.
C1_RewardTrainingBeforePPO ==
    PPOStarted =>
        /\ remaining = {}
        /\ optimizer # <<>> /\ optimizer[1].steps = ExpectedBatches
        /\ trainer # <<>>
        /\ trainer[1].reward_model = optimizer[1].model
        /\ trainer[1].reward_model = names.rm_model
        /\ heap[trainer[1].reward_model].kind = "reward"
        /\ heap[trainer[1].reward_model].upd["backbone"] = ExpectedBatches
        /\ Cardinality({i \in 1..Len(heap) : heap[i].kind = "reward"}) = 1

C1_Witness ==
    /\ pc = "ppo_train"
    /\ ppo.steps > 0
    /\ optimizer[1].steps > 1

\* C2: in every iteration the loss is minus the mean over the batch of (chosen
\* score - rejected score), position i of both score vectors belonging to the
\* same preference pair; so the loss is negative exactly when the mean chosen
\* score exceeds the mean rejected score, and raising one chosen score or
\* lowering one rejected score strictly lowers the loss.
C2_PairwiseLoss ==
    batch # <<>> =>
        LET b == batch[1]
            n == Len(b.idx)
            cs == b.chosen_scores
            rs == b.rejected_scores
        IN  /\ n > 0 /\ Len(cs) = n /\ Len(rs) = n
            /\ \A i \in 1..n : \A k \in {"input_ids", "attention_mask"} :
                 /\ b.chosen[k][i] = chosen_encodings[k][b.idx[i] + 1]
                 /\ b.rejected[k][i] = rejected_encodings[k][b.idx[i] + 1]
            /\ b.loss.den > 0
            /\ b.loss.num * n = (SumSeq(rs) - SumSeq(cs)) * b.loss.den
            /\ (b.loss.num < 0) <=>
                 FracLess([num |-> SumSeq(rs), den |-> n], [num |-> SumSeq(cs), den |-> n])
            /\ \A i \in 1..n :
                 /\ FracLess(RewardLoss([cs EXCEPT ![i] = @ + 1], rs), b.loss)
                 /\ FracLess(RewardLoss(cs, [rs EXCEPT ![i] = @ - 1]), b.loss)

C2_Witness ==
    /\ batch # <<>>
    /\ Len(batch[1].idx) = BatchSize
    /\ batch[1].loss.num < 0
    /\ \E i \in 1..Len(batch[1].idx) : batch[1].chosen_scores[i] < batch[1].rejected_scores[i]
    /\ batch[1].chosen # batch[1].rejected

\* C3: every parameter group the PPO reward is computed from (the backbone and
\* the head rm_model.score applies) was updated by the reward-training loop.
C3_RewardFromTrainedParameters ==
    reward # <<>> =>
        /\ reward[1].model = optimizer[1].model
        /\ \A g \in reward[1].reads : reward[1].upd[g] > 0

\* C4: for every idx in range, PairwiseDataset returns (chosen item, rejected
\* item), every field of the first being row idx of chosen_encodings and every
\* field of the second row idx of rejected_encodings, both the encoding of source
\* example idx.
C4_PairwiseGetItem ==
    probe.op = "pair" =>
        LET i == probe.idx + 1
            ce == RmEncodeOne(dataset.chosen[i])
            re == RmEncodeOne(dataset.rejected[i])
        IN  /\ probe.idx \in 0..(NumExamples - 1)
            /\ Len(probe.pair) = 2
            /\ DOMAIN probe.pair[1] = {"input_ids", "attention_mask"}
            /\ DOMAIN probe.pair[2] = {"input_ids", "attention_mask"}
            /\ \A k \in {"input_ids", "attention_mask"} :
                 /\ probe.pair[1][k] = chosen_encodings[k][i]
                 /\ probe.pair[2][k] = rejected_encodings[k][i]
            /\ SubSeq(probe.pair[1]["input_ids"], 1, Len(ce)) = ce
            /\ SubSeq(probe.pair[2]["input_ids"], 1, Len(re)) = re

C4_Witness ==
    /\ probe.op = "pair"
    /\ probe.idx = NumExamples - 1
    /\ probe.pair[1] # probe.pair[2]
    /\ chosen_encodings["input_ids"][1] # chosen_encodings["input_ids"][NumExamples]

\* C5: PromptDataset has as many items as processed_dataset has examples, and
\* item idx is the policy tokenizer's encoding of processed_dataset['chosen'][idx]:
\* left padding, then <s> and the words of the chosen text cut to max_length.
C5_PromptsAreChosen ==
    /\ probe.op = "prompt_len" => probe.len = Len(dataset.chosen) /\ probe.len = NumExamples
    /\ probe.op = "prompt" =>
        LET i == probe.idx + 1
            text == dataset.chosen[i]
            keep == Min(Len(text), MaxLength - 1)
            row == probe.prompt[1]["input_ids"]
            mask == probe.prompt[1]["attention_mask"]
            w == Len(row)
            padn == w - (keep + 1)
        IN  /\ padn >= 0
            /\ Len(mask) = w
            /\ \A j \in 1..w :
                 /\ j <= padn => row[j] = lm_pad[1] /\ mask[j] = 0
                 /\ j = padn + 1 => row[j] = LmBos /\ mask[j] = 1
                 /\ j > padn + 1 => row[j] = LmWordId(text[j - padn - 1]) /\ mask[j] = 1
            /\ \A e \in 1..NumExamples : Min(Len(dataset.chosen[e]), MaxLength - 1) + 1 <= w
            /\ \E e \in 1..NumExamples : Min(Len(dataset.chosen[e]), MaxLength - 1) + 1 = w

C5_Witness ==
    /\ probe.op = "prompt"
    /\ dataset.chosen[probe.idx + 1] # dataset.rejected[probe.idx + 1]
    /\ probe.prompt[1]["attention_mask"][1] = 0
    /\ Len(dataset.chosen[probe.idx + 1]) < Len(dataset.rejected[probe.idx + 1])

\* C6: generate() is invoked only after ppo_trainer.train() has returned, on
\* ppo_model.pretrained_model: the LoRA-wrapped model inside the policy given to
\* PPOTrainer, carrying every PPO update; not the base model, not a new object.
C6_GenerationOnTrainedPolicy ==
    /\ pc = "raised" => gen = <<>>
    /\ gen # <<>> =>
        /\ gen[1].after_train /\ ppo.returned
        /\ gen[1].ppo_steps = MaxPPOSteps
        /\ gen[1].receiver = heap[trainer[1].model].inner
        /\ gen[1].receiver = names.lora_model
        /\ gen[1].receiver # names.lm_model
        /\ heap[gen[1].receiver].kind = "lora"
        /\ heap[gen[1].receiver].upd["lora"] = MaxPPOSteps
        /\ Cardinality({i \in 1..Len(heap) : heap[i].kind = "lora"}) = 1

C6_Witness ==
    /\ pc = "done"
    /\ gen # <<>>
    /\ heap[gen[1].receiver].upd["lora"] > 0

\* C7: CustomValueHeadModel.forward has two outcomes: the wrapped model's output
\* is returned unchanged when it has a logits attribute, and otherwise a
\* ValueError is raised and nothing is returned.
C7_ForwardOutcomes ==
    fwd # <<>> =>
        LET f == fwd[1]
        IN  /\ f.result.kind \in {"return", "raise"}
            /\ f.outputs.logits # "absent" =>
                 f.result.kind = "return" /\ f.result.value = <<f.outputs>>
            /\ f.outputs.logits = "absent" =>
                 f.result.kind = "raise" /\ f.result.error = "ValueError" /\ f.result.value = <<>>
            /\ f.result.value # <<>> => f.result.value[1].logits # "absent"
            /\ (pc = "raised") <=> (f.result.kind = "raise")

C7_Witness ==
    /\ fwd # <<>>
    /\ fwd[1].result.kind = "raise"
    /\ ppo.steps > 0

\* the eight tasks of the tour
EightTasks ==
    {"sentiment-analysis", "zero-shot-classification", "text-generation", "fill-mask",
     "ner", "question-answering", "summarization", "translation"}

\* the task a call is meant for
TaskOfCall(var, kw) ==
    CASE var = "classifier" /\ "candidate_labels" \in kw -> "zero-shot-classification"
      [] var = "classifier" /\ "candidate_labels" \notin kw -> "sentiment-analysis"
      [] var = "generator" -> "text-generation"
      [] var = "unmasker" -> "fill-mask"
      [] var = "ner" -> "ner"
      [] var = "question_answerer" -> "question-answering"
      [] var = "summarizer" -> "summarization"
      [] var = "translator" -> "translation"
      [] OTHER -> "unknown"

\* C8: the task names passed to transformers.pipeline are the eight tasks, and
\* every pipeline variable is called only when bound to the pipeline of the
\* call's task (classifier with candidate_labels only once rebound to zero-shot).
C8_TourTasksAndBindings ==
    /\ tasks \subseteq EightTasks
    /\ tpc = Len(TourProgram) + 1 => tasks = EightTasks
    /\ tcall # <<>> => tcall[1].bound = TaskOfCall(tcall[1].var, tcall[1].kw)

C8_Witness ==
    /\ tpc = Len(TourProgram) + 1
    /\ tasks = EightTasks
    /\ tenv["classifier"] = "zero-shot-classification"
    /\ tcall[1].var = "translator"
====
